---- MODULE Spec2Model ----
(***************************************************************************)
(* Model of the parcel ledger of app.py: the active store (data.csv), the  *)
(* archive folder, the day-boundary marker (last_run_date.txt), the        *)
(* recipient directory (contact.csv) and the request handlers that act on  *)
(* them, the provider configuration of the extraction chain (config), the  *)
(* images of the last intake request with what was extracted from them     *)
(* (upload), and the requests that are served at the same time, each with  *)
(* the rows it has read and not yet written back (inflight).               *)
(*                                                                         *)
(* Representation of values.  Every CSV cell is a finite sequence; the     *)
(* empty string is <<>>.  Free text is a sequence of one-character         *)
(* strings, so that strip(), lower() and the substring test of the         *)
(* directory lookup are computed.  A formatted value keeps exactly the     *)
(* numbers that were formatted: str(i) is the decimal digit string,        *)
(* strftime("%Y-%m-%d") is <<day>>, strftime("%Y-%m-%d %H:%M:%S") is       *)
(* <<second>>, the label f"{today_compact}-{serial:04d}" is                *)
(* <<day, serial>>.                                                        *)
(***************************************************************************)
EXTENDS Integers, Sequences, FiniteSets, TLC

VARIABLES data, archives, last_run, now, contacts, config, upload, inflight

vars == <<data, archives, last_run, now, contacts, config, upload, inflight>>

-----------------------------------------------------------------------------
(* Bounds of the model *)

MaxRows == 2
MaxClock == 2
SecPerDay == 2
MaxLines == 3

-----------------------------------------------------------------------------
(* Values *)

Blank == <<>>

Sent == <<"Sent">>

Pending == <<"Pending">>

NotPicked == <<"Not Picked">>

PickedUp == <<"Picked">>

None == ("None" :> Blank)

FIELDNAMES ==
  <<"S.No", "Label ID", "Roll No", "Name", "Company", "AWB No",
    "Email", "Phone No", "Time", "Parcel No", "Picked", "Signature",
    "Status", "Mail Status", "Mail Time">>

FieldSet == {FIELDNAMES[i] : i \in 1..Len(FIELDNAMES)}

IdentityFields == {"Name", "Email", "Phone No", "Roll No"}

DATA_FILE == <<"data.csv">>

OtherFile == <<"archive", "other.csv">>

Digits == <<"1", "2", "3", "4", "5", "6", "7", "8", "9">>

(* str(i) for 1 <= i <= 9 *)
Str(i) == <<Digits[i]>>

(* dict.get(k, default) *)
Get(d, k, default) == IF k \in DOMAIN d THEN d[k] ELSE default

UpperChars ==
  <<"A", "B", "C", "D", "E", "F", "G", "H", "I", "J", "K", "L", "M",
    "N", "O", "P", "Q", "R", "S", "T", "U", "V", "W", "X", "Y", "Z">>

LowerChars ==
  <<"a", "b", "c", "d", "e", "f", "g", "h", "i", "j", "k", "l", "m",
    "n", "o", "p", "q", "r", "s", "t", "u", "v", "w", "x", "y", "z">>

(* str.lower() *)
Lower(s) ==
  [i \in 1..Len(s) |->
     IF \E j \in 1..Len(UpperChars) : UpperChars[j] = s[i]
     THEN LowerChars[CHOOSE j \in 1..Len(UpperChars) : UpperChars[j] = s[i]]
     ELSE s[i]]

(* str.strip() *)
Strip(s) ==
  LET keep == {i \in 1..Len(s) : s[i] # " "}
  IN IF keep = {} THEN Blank
     ELSE LET lo == CHOOSE i \in keep : \A j \in keep : i <= j
              hi == CHOOSE i \in keep : \A j \in keep : j <= i
          IN SubSeq(s, lo, hi)

(* q in s, for strings *)
IsSubstring(q, s) ==
  \E i \in 1..(Len(s) - Len(q) + 1) : SubSeq(s, i, i + Len(q) - 1) = q

today_str(clk) == <<clk \div SecPerDay>>

timestamp(clk) == <<clk>>

label_id(clk, serial) == <<clk \div SecPerDay, serial>>

archive_name(marker, clk) == <<"archive", "data", marker[1], clk>>

-----------------------------------------------------------------------------
(* CSV helpers *)

Normalize(r) == [k \in FieldSet |-> Get(r, k, Blank)]

(* the files of the program: the active store and the archive folder *)
read_csv(fs, file_path) ==
  IF file_path = DATA_FILE THEN fs.data
  ELSE IF file_path \in DOMAIN fs.archives THEN fs.archives[file_path]
  ELSE <<>>

write_csv(fs, rows, file_path) ==
  LET normalized == [i \in 1..Len(rows) |-> Normalize(rows[i])]
  IN IF file_path = DATA_FILE
     THEN [fs EXCEPT !.data = normalized]
     ELSE [fs EXCEPT !.archives =
             [p \in DOMAIN fs.archives \cup {file_path} |->
                IF p = file_path THEN normalized ELSE fs.archives[p]]]

get_recipient_details(dir, query_val) ==
  IF query_val = Blank THEN None
  ELSE LET q == Lower(Strip(query_val))
           Hit(row) ==
             LET r_roll == Lower(Strip(row["rollno"]))
                 r_phone == Lower(Strip(row["phno"]))
             IN \/ (r_roll # Blank /\ q = r_roll)
                \/ (r_phone # Blank /\ IsSubstring(q, r_phone))
           hits == {i \in 1..Len(dir) : Hit(dir[i])}
       IN IF hits = {} THEN None
          ELSE LET row == dir[CHOOSE i \in hits : \A j \in hits : i <= j]
               IN ("Name" :> row["Name"]) @@ ("Email" :> row["email"]) @@
                  ("Roll No" :> row["rollno"]) @@ ("Phone No" :> row["phno"])

(* the directory value even when it is empty *)
MergeClobber(match, k, value) == match[k]

(* value or match[k]: the caller's value first *)
MergeCallerFirst(match, k, value) == IF value # Blank THEN value ELSE match[k]

(* match[k] or value *)
Merge(match, k, value) == IF match[k] # Blank THEN match[k] ELSE value

(* the archive is copied but the active store is not truncated *)
check_daily_reset_keep(fs, clk) ==
  LET rows == read_csv(fs, DATA_FILE)
      archived ==
        IF fs.last_run # Blank /\ fs.last_run # today_str(clk) /\ rows # <<>>
        THEN [fs EXCEPT
                !.archives =
                  [p \in DOMAIN fs.archives \cup {archive_name(fs.last_run, clk)} |->
                     IF p = archive_name(fs.last_run, clk) THEN fs.data
                     ELSE fs.archives[p]]]
        ELSE fs
  IN [archived EXCEPT !.last_run = today_str(clk)]

(* the marker is compared with a date in another format, so it always      *)
(* differs, and the active store is not truncated                          *)
check_daily_reset_always(fs, clk) ==
  LET rows == read_csv(fs, DATA_FILE)
      archived ==
        IF fs.last_run # Blank /\ rows # <<>>
        THEN [fs EXCEPT
                !.archives =
                  [p \in DOMAIN fs.archives \cup {archive_name(fs.last_run, clk)} |->
                     IF p = archive_name(fs.last_run, clk) THEN fs.data
                     ELSE fs.archives[p]]]
        ELSE fs
  IN [archived EXCEPT !.last_run = today_str(clk)]

(* every rollover copies the store to the same archive file *)
check_daily_reset_one_file(fs, clk) ==
  LET rows == read_csv(fs, DATA_FILE)
      archived ==
        IF fs.last_run # Blank /\ fs.last_run # today_str(clk) /\ rows # <<>>
        THEN [fs EXCEPT
                !.archives =
                  [p \in DOMAIN fs.archives \cup {OtherFile} |->
                     IF p = OtherFile THEN fs.data ELSE fs.archives[p]],
                !.data = <<>>]
        ELSE fs
  IN [archived EXCEPT !.last_run = today_str(clk)]

check_daily_reset(fs, clk) ==
  LET rows == read_csv(fs, DATA_FILE)
      archived ==
        IF fs.last_run # Blank /\ fs.last_run # today_str(clk) /\ rows # <<>>
        THEN [fs EXCEPT
                !.archives =
                  [p \in DOMAIN fs.archives \cup {archive_name(fs.last_run, clk)} |->
                     IF p = archive_name(fs.last_run, clk) THEN fs.data
                     ELSE fs.archives[p]],
                !.data = <<>>]
        ELSE fs
  IN [archived EXCEPT !.last_run = today_str(clk)]

(* the directory match of append_to_csv: by roll number, then by phone *)
append_match(dir, d) ==
  LET byRoll == IF Get(d, "Roll No", Blank) # Blank
                THEN get_recipient_details(dir, d["Roll No"]) ELSE None
  IN IF byRoll = None /\ Get(d, "Phone No", Blank) # Blank
     THEN get_recipient_details(dir, d["Phone No"])
     ELSE byRoll

append_entry(rows, d, match, clk) ==
  LET final(k) == IF match # None THEN Merge(match, k, Get(d, k, Blank))
                  ELSE Get(d, k, Blank)
  IN ("S.No" :> Str(Len(rows) + 1)) @@
     ("Label ID" :> label_id(clk, Len(rows) + 1)) @@
     ("Roll No" :> final("Roll No")) @@
     ("Name" :> final("Name")) @@
     ("Company" :> Get(d, "Company", Blank)) @@
     ("AWB No" :> Get(d, "AWB No", Blank)) @@
     ("Email" :> final("Email")) @@
     ("Phone No" :> final("Phone No")) @@
     ("Time" :> timestamp(clk)) @@
     ("Parcel No" :> Get(d, "Parcel No", Blank)) @@
     ("Picked" :> Get(d, "Picked", NotPicked)) @@
     ("Signature" :> Get(d, "Signature", Blank)) @@
     ("Status" :> Get(d, "Status", Pending)) @@
     ("Mail Status" :> Get(d, "Mail Status", Pending)) @@
     ("Mail Time" :> Get(d, "Mail Time", Blank))

append_to_csv(fs, dir, d, clk) ==
  LET fs1 == check_daily_reset(fs, clk)
      rows == read_csv(fs1, DATA_FILE)
      entry == append_entry(rows, d, append_match(dir, d), clk)
  IN write_csv(fs1, Append(rows, entry), DATA_FILE)

-----------------------------------------------------------------------------
(* The state of the files as one record, and its assignment *)

Files == [data |-> data, archives |-> archives, last_run |-> last_run]

SetFiles(fs) ==
  /\ data' = fs.data
  /\ archives' = fs.archives
  /\ last_run' = fs.last_run

-----------------------------------------------------------------------------
(* Route handlers as functions of the files *)

(* the indices of the rows whose S.No is sno *)
Matching(rows, sno) == {i \in 1..Len(rows) : rows[i]["S.No"] = sno}

FirstMatching(rows, sno) ==
  CHOOSE i \in Matching(rows, sno) : \A j \in Matching(rows, sno) : i <= j

(* the directory match of update_row: by roll number, else by phone *)
update_match(dir, d) ==
  IF Get(d, "Roll No", Blank) # Blank
  THEN get_recipient_details(dir, d["Roll No"])
  ELSE IF Get(d, "Phone No", Blank) # Blank
       THEN get_recipient_details(dir, d["Phone No"])
       ELSE None

(* the row after the caller's fields are applied, before the merge *)
apply_fields(row, d) ==
  [k \in FieldSet |-> IF k \in DOMAIN d THEN d[k] ELSE row[k]]

updated_row(row, d, match) ==
  LET r1 == apply_fields(row, d)
  IN IF match = None THEN r1
     ELSE [k \in FieldSet |->
             IF k \in IdentityFields THEN Merge(match, k, r1[k]) ELSE r1[k]]

(* the response of a handler: the status code and the message *)
Response(status, message) == [status |-> status, message |-> message]

(* jsonify({"message": "Row not found"}), 404 *)
RowNotFound == Response(404, <<"Row not found">>)

(* write_csv outside `if updated`: the store is written back in any case *)
update_row_write_always(fs, dir, sno, d, file_path) ==
  LET rows == read_csv(fs, file_path)
  IN IF Matching(rows, sno) = {} THEN write_csv(fs, rows, file_path)
     ELSE LET i == FirstMatching(rows, sno)
          IN write_csv(fs,
                       [rows EXCEPT ![i] = updated_row(rows[i], d, update_match(dir, d))],
                       file_path)

update_row(fs, dir, sno, d, file_path) ==
  LET rows == read_csv(fs, file_path)
  IN IF Matching(rows, sno) = {} THEN fs
     ELSE LET i == FirstMatching(rows, sno)
          IN write_csv(fs,
                       [rows EXCEPT ![i] = updated_row(rows[i], d, update_match(dir, d))],
                       file_path)

update_status(fs, sno, status, file_path) ==
  LET rows == read_csv(fs, file_path)
  IN IF Matching(rows, sno) = {} THEN fs
     ELSE LET i == FirstMatching(rows, sno)
          IN write_csv(fs, [rows EXCEPT ![i]["Picked"] = status], file_path)

update_row_response(fs, sno, file_path) ==
  IF Matching(read_csv(fs, file_path), sno) = {} THEN RowNotFound
  ELSE Response(200, <<"Row", sno, "updated.">>)

update_status_response(fs, sno, status, file_path) ==
  IF Matching(read_csv(fs, file_path), sno) = {} THEN RowNotFound
  ELSE Response(200, <<"Row", sno, "marked as", status>>)

(* delete_row has one return statement *)
delete_row_response(fs, sno, file_path) == Response(200, <<"Row", sno, "deleted.">>)

(* the remaining rows keep their numbers *)
RenumberNone(rows) == rows

(* for i, r in enumerate(rows, start=1): r["S.No"] = str(i) *)
Renumber(rows) == [i \in 1..Len(rows) |-> [rows[i] EXCEPT !["S.No"] = Str(i)]]

delete_row(fs, sno, file_path) ==
  LET rows == read_csv(fs, file_path)
      kept == SelectSeq(rows, LAMBDA r : r["S.No"] # sno)
  IN write_csv(fs, Renumber(kept), file_path)

add_row(fs, clk) ==
  LET rows == read_csv(fs, DATA_FILE)
      empty_row ==
        [k \in FieldSet |->
           CASE k = "S.No" -> Str(Len(rows) + 1)
             [] k = "Label ID" -> label_id(clk, Len(rows) + 1)
             [] k = "Time" -> timestamp(clk)
             [] k = "Picked" -> NotPicked
             [] k = "Status" -> Pending
             [] k = "Mail Status" -> Pending
             [] OTHER -> Blank]
  IN write_csv(fs, Append(rows, empty_row), DATA_FILE)

(* append_to_csv up to the store read: the day-boundary check, the rows    *)
(* read and the entry built from them                                      *)
append_read(fs, dir, d, clk) ==
  LET fs1 == check_daily_reset(fs, clk)
      rows == read_csv(fs1, DATA_FILE)
  IN [fs |-> fs1, rows |-> rows,
      entry |-> append_entry(rows, d, append_match(dir, d), clk)]

(* the store is read again at the write, as under a lock around the        *)
(* read-modify-write                                                       *)
append_write_fresh(fs, rows, entry) ==
  write_csv(fs, Append(read_csv(fs, DATA_FILE), entry), DATA_FILE)

(* rows.append(entry); write_csv(rows), with the rows read earlier *)
append_write(fs, rows, entry) == write_csv(fs, Append(rows, entry), DATA_FILE)

(* delete_row up to the store read *)
delete_read(fs, file_path) == read_csv(fs, file_path)

(* the filter, the renumbering and the write, with the rows read earlier *)
delete_write(fs, rows, sno, file_path) ==
  write_csv(fs, Renumber(SelectSeq(rows, LAMBDA r : r["S.No"] # sno)), file_path)

(* the test without the status: every row with an email is pending *)
IsPendingAnyStatus(row) == row["Email"] # Blank

(* the rows of pending_by_email[email] *)
IsPending(row) == row["Mail Status"] # Sent /\ row["Email"] # Blank

PendingEmails(rows) == {rows[i]["Email"] : i \in {j \in 1..Len(rows) : IsPending(rows[j])}}

RangeOf(seq) == {seq[i] : i \in 1..Len(seq)}

(* the keys of pending_by_email after the first n rows, in insertion order *)
RECURSIVE GroupKeys(_, _)
GroupKeys(rows, n) ==
  IF n = 0 THEN <<>>
  ELSE LET keys == GroupKeys(rows, n - 1)
       IN IF IsPending(rows[n]) /\ rows[n]["Email"] \notin RangeOf(keys)
          THEN Append(keys, rows[n]["Email"])
          ELSE keys

(* the recipients of the calls of send_email_real, in order: one call per  *)
(* key of pending_by_email                                                 *)
send_calls(fs) ==
  LET rows == read_csv(fs, DATA_FILE)
  IN GroupKeys(rows, Len(rows))

(* the failures list of the response: one entry per failed call *)
send_failures(fs, ok) ==
  SelectSeq(send_calls(fs), LAMBDA e : ~ok[e])

(* ok[email] is the outcome of send_email_real for the group of email *)
send_bulk_pending(fs, ok, clk) ==
  LET rows == read_csv(fs, DATA_FILE)
      Marked(r) ==
        \E j \in 1..Len(rows) :
          /\ IsPending(rows[j])
          /\ ok[rows[j]["Email"]]
          /\ r["S.No"] = rows[j]["S.No"]
      sentRows ==
        [i \in 1..Len(rows) |->
           IF Marked(rows[i])
           THEN [rows[i] EXCEPT !["Mail Status"] = Sent, !["Mail Time"] = timestamp(clk)]
           ELSE rows[i]]
  IN write_csv(fs, sentRows, DATA_FILE)

-----------------------------------------------------------------------------
(* Extraction chain.  A text is the sequence of its lines (the result of   *)
(* splitlines()); the empty string is the text with no line.  The outcome  *)
(* of one subprocess.run or requests.post is an input of the model.        *)

(* DEEPSEEK_CMD, DEEPSEEK_SCRIPT and (DEEPSEEK_HF_MODEL and HF_TOKEN) set *)
Config(cmd, script, hf) == [cmd |-> cmd, script |-> script, hf |-> hf]

(* the defaults of os.environ.get: nothing is configured *)
NoProviders == Config(FALSE, FALSE, FALSE)

(* subprocess.TimeoutExpired *)
Timeout == [kind |-> "timeout"]

(* FileNotFoundError: the executable does not exist *)
CommandNotFound == [kind |-> "notfound"]

(* a completed process: proc.returncode and proc.stdout *)
Exit(returncode, stdout) == [kind |-> "exit", returncode |-> returncode, stdout |-> stdout]

(* requests.post raised *)
RequestError == [kind |-> "raise"]

(* a response: resp.status_code and its body *)
Http(status, body) == [kind |-> "http", status |-> status, body |-> body]

(* an output that is not a JSON object *)
Plain(text) == [json |-> FALSE, text |-> text]

(* an output that is the JSON object {key: text} *)
Json(key, text) == [json |-> TRUE, key |-> key, text |-> text]

(* the characters of an output *)
RECURSIVE JoinLines(_)
JoinLines(text) ==
  IF text = <<>> THEN <<>>
  ELSE IF Len(text) = 1 THEN text[1]
  ELSE text[1] \o <<"\\n">> \o JoinLines(Tail(text))

(* the characters of an output; a JSON object is written on one line *)
RawOf(doc) ==
  IF doc.json THEN << <<"{", doc.key, ":">> \o JoinLines(doc.text) \o <<"}">> >>
  ELSE doc.text

(* str.lstrip() *)
LStrip(s) ==
  LET keep == {i \in 1..Len(s) : s[i] # " "}
  IN IF keep = {} THEN Blank
     ELSE SubSeq(s, CHOOSE i \in keep : \A j \in keep : i <= j, Len(s))

(* str.rstrip() *)
RStrip(s) ==
  LET keep == {i \in 1..Len(s) : s[i] # " "}
  IN IF keep = {} THEN Blank
     ELSE SubSeq(s, 1, CHOOSE i \in keep : \A j \in keep : j <= i)

(* str.strip() of a text: white lines at both ends go, the first line left *)
(* is stripped on the left and the last on the right                       *)
StripText(text) ==
  LET keep == {i \in 1..Len(text) : Strip(text[i]) # Blank}
  IN IF keep = {} THEN <<>>
     ELSE LET lo == CHOOSE i \in keep : \A j \in keep : i <= j
              hi == CHOOSE i \in keep : \A j \in keep : j <= i
              mid == SubSeq(text, lo, hi)
          IN [i \in 1..Len(mid) |->
                IF Len(mid) = 1 THEN Strip(mid[i])
                ELSE IF i = 1 THEN LStrip(mid[i])
                ELSE IF i = Len(mid) THEN RStrip(mid[i])
                ELSE mid[i]]

(* [l.strip() for l in out.splitlines() if l.strip()] *)
SplitLines(out) ==
  LET stripped == [i \in 1..Len(out) |-> Strip(out[i])]
  IN SelectSeq(stripped, LAMBDA l : l # Blank)

(* what a provider returns, with the invocations it made: None or a text *)
Returned(text, calls) == [none |-> FALSE, out |-> text, calls |-> calls]

ReturnedNone(calls) == [none |-> TRUE, out |-> <<>>, calls |-> calls]

(* `if out:` for None and for a text *)
Truthy(r) == ~r.none /\ r.out # <<>>

(* the text a provider takes from an output: parsed[key] for the first key *)
(* of keys that the object has, or else the stripped output                *)
TextOf(doc, keys, stripped) ==
  IF doc.json /\ doc.key \in keys THEN doc.text
  ELSE IF stripped THEN StripText(RawOf(doc))
  ELSE RawOf(doc)

(* one invocation of a provider *)
Call(provider, shape) == [provider |-> provider, shape |-> shape]

(* the argument shapes of the attempts list *)
CliShapes == <<"--image", "positional", "-i">>

(* the loop over attempts, from attempt n on; runs[n] is the outcome of *)
(* the subprocess of attempt n                                          *)
RECURSIVE cli_attempts(_, _)
cli_attempts(runs, n) ==
  IF n > Len(CliShapes) THEN ReturnedNone(<<>>)
  ELSE LET r == runs[n]
           call == Call("cli", CliShapes[n])
           rest == cli_attempts(runs, n + 1)
           next == [rest EXCEPT !.calls = <<call>> \o rest.calls]
       IN CASE r.kind = "timeout" -> next
            [] r.kind = "notfound" -> ReturnedNone(<<call>>)
            [] r.kind = "exit" /\ r.returncode # 0 -> next
            [] r.kind = "exit" /\ r.returncode = 0 ->
                 IF StripText(RawOf(r.stdout)) = <<>> THEN next
                 ELSE Returned(TextOf(r.stdout, {"text", "ocr_text", "result", "pred", "output"}, TRUE),
                               <<call>>)

deepseek_call_cli(cfg, runs) ==
  IF ~cfg.cmd THEN ReturnedNone(<<>>)
  ELSE cli_attempts(runs, 1)

deepseek_call_script(cfg, runs) ==
  LET first == Call("script", "--image")
      second == Call("script", "positional")
      Result(r, calls) ==
        IF StripText(RawOf(r.stdout)) = <<>> THEN ReturnedNone(calls)
        ELSE Returned(TextOf(r.stdout, {"text", "ocr_text", "result", "pred"}, TRUE), calls)
  IN IF ~cfg.script THEN ReturnedNone(<<>>)
     ELSE IF runs[1].kind # "exit" THEN ReturnedNone(<<first>>)
     ELSE IF runs[1].returncode = 0 THEN Result(runs[1], <<first>>)
     ELSE IF runs[2].kind # "exit" \/ runs[2].returncode # 0
          THEN ReturnedNone(<<first, second>>)
     ELSE Result(runs[2], <<first, second>>)

deepseek_call_hf_inference(cfg, resp) ==
  LET call == Call("hf", "post")
  IN IF ~cfg.hf THEN ReturnedNone(<<>>)
     ELSE IF resp.kind # "http" \/ resp.status # 200 THEN ReturnedNone(<<call>>)
     ELSE Returned(TextOf(resp.body, {"text", "ocr_text", "result"}, FALSE), <<call>>)

(* what deepseek_ocr returns, and the invocations it made *)
Extracted(raw_text, lines, calls) == [raw_text |-> raw_text, lines |-> lines, calls |-> calls]

(* every provider is called and the last text is returned *)
deepseek_ocr_last(cfg, env) ==
  LET cli == deepseek_call_cli(cfg, env.cli)
      script == deepseek_call_script(cfg, env.script)
      hf == deepseek_call_hf_inference(cfg, env.hf)
      calls == cli.calls \o script.calls \o hf.calls
  IN IF cfg.hf /\ Truthy(hf) THEN Extracted(hf.out, SplitLines(hf.out), calls)
     ELSE IF cfg.script /\ Truthy(script) THEN Extracted(script.out, SplitLines(script.out), calls)
     ELSE IF cfg.cmd /\ Truthy(cli) THEN Extracted(cli.out, SplitLines(cli.out), calls)
     ELSE Extracted(<<>>, <<>>, calls)

(* env.cli, env.script and env.hf are the outcomes that the invocations of *)
(* the three providers get for this image                                  *)
deepseek_ocr(cfg, env) ==
  LET cli == deepseek_call_cli(cfg, env.cli)
      script == deepseek_call_script(cfg, env.script)
      hf == deepseek_call_hf_inference(cfg, env.hf)
  IN IF cfg.cmd /\ Truthy(cli) THEN Extracted(cli.out, SplitLines(cli.out), cli.calls)
     ELSE IF cfg.script /\ Truthy(script)
          THEN Extracted(script.out, SplitLines(script.out), cli.calls \o script.calls)
     ELSE IF cfg.hf /\ Truthy(hf)
          THEN Extracted(hf.out, SplitLines(hf.out), cli.calls \o script.calls \o hf.calls)
     ELSE Extracted(<<>>, <<>>, cli.calls \o script.calls \o hf.calls)

-----------------------------------------------------------------------------
(* Line classifier *)

DigitChars == {"0", "1", "2", "3", "4", "5", "6", "7", "8", "9"}

LetterChars == RangeOf(UpperChars) \cup RangeOf(LowerChars)

(* [a-zA-Z0-9\s,+-.]: the range from "+" to "." is + , - . *)
AllowedChars == LetterChars \cup DigitChars \cup {" ", ",", "+", "-", "."}

(* \w at position i of s; there is no character outside the string *)
IsWordAt(s, i) == i \in 1..Len(s) /\ s[i] \in LetterChars \cup DigitChars \cup {"_"}

(* \b between positions i - 1 and i *)
WordBoundary(s, i) == IsWordAt(s, i - 1) # IsWordAt(s, i)

AllIn(s, i, j, chars) == \A k \in i..j : s[k] \in chars

(* re.sub(r'[^a-zA-Z0-9\s,+-.]', '', l).strip() *)
Clean(l) == Strip(SelectSeq(l, LAMBDA c : c \in AllowedChars))

(* group(0) of re.search: the leftmost match, the longest at that start *)
SearchGroup(s, spans) ==
  LET span == CHOOSE m \in spans :
                \A o \in spans : m[1] < o[1] \/ (m[1] = o[1] /\ m[2] >= o[2])
  IN SubSeq(s, span[1], span[2])

(* the matches <<first, last>> of \b\d{10,15}\b *)
AwbSpans(s) ==
  {m \in (1..Len(s)) \X (1..Len(s)) :
     /\ m[2] - m[1] + 1 \in 10..15
     /\ AllIn(s, m[1], m[2], DigitChars)
     /\ WordBoundary(s, m[1])
     /\ WordBoundary(s, m[2] + 1)}

(* the matches of \d{10}\b *)
PhoneSpans(s) ==
  {m \in (1..Len(s)) \X (1..Len(s)) :
     /\ m[2] - m[1] + 1 = 10
     /\ AllIn(s, m[1], m[2], DigitChars)
     /\ WordBoundary(s, m[2] + 1)}

(* re.search(r'(\+?91|0)?\s?\d{10}\b', s): the positions after the optional *)
(* prefix and the optional white space, from a start i                      *)
AfterPrefix(s, i) ==
  LET HasAt(q) == i + Len(q) - 1 <= Len(s) /\ SubSeq(s, i, i + Len(q) - 1) = q
      marker == {i} \cup {i + Len(q) : q \in {p \in {<<"0">>, <<"9", "1">>, <<"+", "9", "1">>} : HasAt(p)}}
  IN marker \cup {e + 1 : e \in {x \in marker : x <= Len(s) /\ s[x] = " "}}

PhoneTest(s) ==
  \E i \in 1..Len(s) : \E e \in AfterPrefix(s, i) : \E m \in PhoneSpans(s) : m[1] = e

(* the matches of \b\d{2}[A-Z0-9]{8}\b with re.IGNORECASE *)
RollSpans(s) ==
  {m \in (1..Len(s)) \X (1..Len(s)) :
     /\ m[2] - m[1] + 1 = 10
     /\ AllIn(s, m[1], m[1] + 1, DigitChars)
     /\ AllIn(s, m[1] + 2, m[2], LetterChars \cup DigitChars)
     /\ WordBoundary(s, m[1])
     /\ WordBoundary(s, m[2] + 1)}

(* the courier names of the keyword list *)
Couriers ==
  { <<"f", "l", "i", "p", "k", "a", "r", "t">>,
    <<"e", "k", "a", "r", "t">>,
    <<"d", "e", "l", "h", "i", "v", "e", "r", "y">>,
    <<"a", "m", "a", "z", "o", "n">>,
    <<"b", "l", "u", "e", "d", "a", "r", "t">>,
    <<"x", "p", "r", "e", "s", "s", "b", "e", "e", "s">>,
    <<"e", "c", "o", "m">>,
    <<"s", "h", "a", "d", "o", "w", "f", "a", "x">> }

CompanyTest(s) == \E x \in Couriers : IsSubstring(x, Lower(s))

(* re.match(r'^[A-Za-z][A-Za-z\s.]{2,40}$', s) *)
NameTest(s) ==
  /\ Len(s) - 1 \in 2..40
  /\ s[1] \in LetterChars
  /\ AllIn(s, 2, Len(s), LetterChars \cup {" ", "."})

(* name = company = phone = awb = rollno = None *)
Unset == [name |-> None, company |-> None, phone |-> None, awb |-> None, rollno |-> None]

(* `not x` for None and for a string *)
Falsy(x) == x = None \/ x = Blank

(* the line is tested for every field and the last match is kept *)
classify_step_overwrite(acc, line) ==
  LET a1 == IF AwbSpans(line) # {} THEN [acc EXCEPT !.awb = SearchGroup(line, AwbSpans(line))] ELSE acc
      a2 == IF PhoneTest(line) THEN [a1 EXCEPT !.phone = SearchGroup(line, PhoneSpans(line))] ELSE a1
      a3 == IF RollSpans(line) # {} THEN [a2 EXCEPT !.rollno = SearchGroup(line, RollSpans(line))] ELSE a2
      a4 == IF CompanyTest(line) THEN [a3 EXCEPT !.company = line] ELSE a3
  IN IF NameTest(line) THEN [a4 EXCEPT !.name = Strip(line)] ELSE a4

(* no `continue`: the line is tested for every field that is still unset *)
classify_step_fallthrough(acc, line) ==
  LET a1 == IF Falsy(acc.awb) /\ AwbSpans(line) # {}
            THEN [acc EXCEPT !.awb = SearchGroup(line, AwbSpans(line))] ELSE acc
      a2 == IF Falsy(acc.phone) /\ PhoneTest(line)
            THEN [a1 EXCEPT !.phone = SearchGroup(line, PhoneSpans(line))] ELSE a1
      a3 == IF Falsy(acc.rollno) /\ RollSpans(line) # {}
            THEN [a2 EXCEPT !.rollno = SearchGroup(line, RollSpans(line))] ELSE a2
      a4 == IF Falsy(acc.company) /\ CompanyTest(line) THEN [a3 EXCEPT !.company = line] ELSE a3
  IN IF Falsy(acc.name) /\ NameTest(line) THEN [a4 EXCEPT !.name = Strip(line)] ELSE a4

(* the body of `for line in cleaned` *)
classify_step(acc, line) ==
  IF Falsy(acc.awb) /\ AwbSpans(line) # {}
  THEN [acc EXCEPT !.awb = SearchGroup(line, AwbSpans(line))]
  ELSE IF Falsy(acc.phone) /\ PhoneTest(line)
  THEN [acc EXCEPT !.phone = SearchGroup(line, PhoneSpans(line))]
  ELSE IF Falsy(acc.rollno) /\ RollSpans(line) # {}
  THEN [acc EXCEPT !.rollno = SearchGroup(line, RollSpans(line))]
  ELSE IF Falsy(acc.company) /\ CompanyTest(line)
  THEN [acc EXCEPT !.company = line]
  ELSE IF Falsy(acc.name) /\ NameTest(line)
  THEN [acc EXCEPT !.name = Strip(line)]
  ELSE acc

(* the lines the loop runs over *)
cleaned(lines) ==
  LET kept == SelectSeq(lines, LAMBDA l : Len(Strip(l)) > 2)
  IN [i \in 1..Len(kept) |-> Clean(kept[i])]

(* the locals after the first n lines of cl *)
RECURSIVE classify_loop(_, _)
classify_loop(cl, n) ==
  IF n = 0 THEN Unset ELSE classify_step(classify_loop(cl, n - 1), cl[n])

(* x or "" *)
OrEmpty(x) == IF Falsy(x) THEN Blank ELSE x

classify_lines(lines) ==
  LET cl == cleaned(lines)
      acc == classify_loop(cl, Len(cl))
  IN ("Name" :> OrEmpty(acc.name)) @@ ("Company" :> OrEmpty(acc.company))
     @@ ("Phone No" :> OrEmpty(acc.phone)) @@ ("AWB No" :> OrEmpty(acc.awb))
     @@ ("Roll No" :> OrEmpty(acc.rollno))

(* one image of a request: the outcomes its invocations get, what         *)
(* deepseek_ocr returned with the invocations made, and the mapping handed *)
(* to append_to_csv                                                        *)
Image(env, ext, parsed) ==
  [env |-> env, raw_text |-> ext.raw_text, lines |-> ext.lines,
   calls |-> ext.calls, parsed |-> parsed]

(* an image whose classification is all blank is not recorded *)
record_image_skip_blank(fs, dir, parsed, clk) ==
  IF \A k \in DOMAIN parsed : parsed[k] = Blank THEN fs ELSE append_to_csv(fs, dir, parsed, clk)

(* append_to_csv(parsed), the last statement of the body of `for f in files` *)
record_image(fs, dir, parsed, clk) == append_to_csv(fs, dir, parsed, clk)

(* the store after the first n images of a request; parsed[i] is the *)
(* mapping of image i                                                *)
RECURSIVE record_images(_, _, _, _, _)
record_images(fs, dir, parsed, clk, n) ==
  IF n = 0 THEN fs
  ELSE record_image(record_images(fs, dir, parsed, clk, n - 1), dir, parsed[n], clk)

-----------------------------------------------------------------------------
(* Inputs *)

Contact(name, phno, rollno, email) ==
  ("Name" :> name) @@ ("phno" :> phno) @@ ("rollno" :> rollno) @@ ("email" :> email)

(* contact.csv: an entry without phone, an entry without roll number and   *)
(* name, and a complete entry                                              *)
ContactRows ==
  << Contact(<<"N">>, Blank, <<"7", "a">>, <<"x">>),
     Contact(Blank, <<"9", "8">>, Blank, <<"y">>),
     Contact(<<"L">>, <<"9", "5">>, <<"7", "b">>, Blank) >>

(* contact.csv absent or empty, or present *)
Directories == {<<>>, ContactRows}

Parsed(name, phone, roll) ==
  ("Name" :> name) @@ ("Company" :> Blank) @@ ("Phone No" :> phone) @@
  ("AWB No" :> Blank) @@ ("Roll No" :> roll)

(* results of classify_lines handed to append_to_csv *)
NoFields == Parsed(Blank, Blank, Blank)

ParsedInputs ==
  { NoFields,
    Parsed(<<"M">>, <<"5">>, <<"7", "A">>),
    Parsed(<<"M">>, <<"8">>, Blank),
    Parsed(Blank, <<"9">>, <<"7", "c">>) }

(* JSON bodies of update_row that edit identity fields *)
IdentityBodies ==
  { ("Roll No" :> <<"7", "A">>) @@ ("Phone No" :> <<"5">>),
    ("Phone No" :> <<"8">>) @@ ("Name" :> <<"K">>),
    ("Roll No" :> <<"7", "B">>) @@ ("Email" :> <<"w">>) }

(* JSON bodies of update_row with a roll number and a phone: the roll      *)
(* number is in no entry and the phone is; the roll number is in an entry; *)
(* a phone alone                                                           *)
LookupBodies ==
  { ("Roll No" :> <<"7", "c">>) @@ ("Phone No" :> <<"9">>),
    ("Roll No" :> <<"7", "A">>) @@ ("Phone No" :> <<"5">>),
    ("Phone No" :> <<"8">>) }

(* JSON bodies of update_row that name the sequence number, or no column *)
ColumnBodies ==
  { ("S.No" :> Str(MaxRows + 1)),
    ("Remark" :> <<"z">>) }

(* JSON bodies of update_row that name the notification status *)
MailBodies ==
  { ("Mail Status" :> Sent),
    ("Mail Status" :> Pending) }

(* the <sno> of a route *)
Snos == {Str(i) : i \in 1..(MaxRows + 1)}

(* the stores a route can select with ?filename= *)
FilePaths == {DATA_FILE, OtherFile} \cup DOMAIN archives

(* The three providers return different texts *)
TextA == << <<" ", "A", "n", "n">>, <<>>, <<"E", "k", "a", "r", "t", " ">> >>

TextB == << <<"B", "o", "b">> >>

TextC == << <<"2", "1", "B", "C", "E", "1", "2", "3", "4", "5">> >>

(* white space only *)
White == << <<" ">> >>

(* outcomes of the three attempts of deepseek_call_cli: text at once; text *)
(* from the third shape after a timeout and a non-zero exit; no text       *)
CliRuns ==
  { <<Exit(0, Plain(TextA)), Timeout, Timeout>>,
    <<Timeout, Exit(1, Plain(TextA)), Exit(0, Json("text", TextA))>>,
    <<Exit(0, Plain(White)), Exit(1, Plain(TextA)), CommandNotFound>> }

(* outcomes of the two invocations of deepseek_call_script: text from the  *)
(* positional form after a non-zero exit; a timeout                        *)
ScriptRuns ==
  { <<Exit(1, Plain(TextB)), Exit(0, Json("pred", TextB))>>,
    <<Timeout, Exit(0, Plain(TextB))>> }

(* outcomes of the request of deepseek_call_hf_inference *)
HfResponses ==
  { Http(200, Json("result", TextC)),
    Http(503, Plain(TextC)) }

Env(cli, script, hf) == [cli |-> cli, script |-> script, hf |-> hf]

OcrEnvs == {Env(c, sc, h) : c \in CliRuns, sc \in ScriptRuns, h \in HfResponses}

Configs == {Config(c, sc, h) : c \in BOOLEAN, sc \in BOOLEAN, h \in BOOLEAN}

(* the images of one request: at most as many as the store has room for *)
Requests(room) == UNION {[1..n -> OcrEnvs] : n \in 1..room}

(* lines for the classifier: a 10-digit token; 11 digits; a number after   *)
(* letters; digits that the clean-up joins; a roll number; a courier; a    *)
(* name; a short line                                                      *)
SampleLines ==
  { <<"9", "8", "7", "6", "5", "4", "3", "2", "1", "0">>,
    <<"1", "2", "3", "4", "5", "6", "7", "8", "9", "0", "1">>,
    <<"P", "h", "9", "1", "2", "3", "4", "5", "6", "7", "8", "9">>,
    <<"5", "5", "5", "5", "5", "#", "6", "6", "6", "6", "6">>,
    <<"2", "1", "B", "C", "E", "1", "2", "3", "4", "5">>,
    <<"E", "k", "a", "r", "t">>,
    <<"A", "n", "n">>,
    <<"a", "b">> }

LineLists == UNION {[1..n -> SampleLines] : n \in 0..MaxLines}

(* two requests are served at the same time *)
Slots == {1, 2}

(* a request slot: where the handler is (idle, read: between the store     *)
(* read and the store write, done: written, response not yet returned),    *)
(* the handler, the rows it read, the entry it built and its <sno>         *)
Request(pc, op, rows, entry, sno) ==
  [pc |-> pc, op |-> op, rows |-> rows, entry |-> entry, sno |-> sno]

Idle == Request("idle", "none", <<>>, None, Blank)

NoRequests == [r \in Slots |-> Idle]

(* what the images of the racing intake requests classify to *)
RaceInputs == {NoFields, Parsed(<<"M">>, <<"8">>, Blank)}

-----------------------------------------------------------------------------
(* Actions: one per request *)

(* no store, no archive, no marker yet; contact.csv as installed *)
Init ==
  /\ data = <<>>
  /\ archives = [p \in {} |-> <<>>]
  /\ last_run = Blank
  /\ now = 0
  /\ contacts = ContactRows
  /\ config = NoProviders
  /\ upload = <<>>
  /\ inflight = NoRequests

(* the same, with contact.csv absent or installed *)
InitMerge ==
  /\ data = <<>>
  /\ archives = [p \in {} |-> <<>>]
  /\ last_run = Blank
  /\ now = 0
  /\ contacts \in Directories
  /\ config = NoProviders
  /\ upload = <<>>
  /\ inflight = NoRequests

(* GET / *)
IndexGet ==
  /\ SetFiles(check_daily_reset(Files, now))
  /\ UNCHANGED <<now, contacts, config, upload, inflight>>

(* POST / with one image whose classification is d *)
IndexPost(d) ==
  /\ Len(check_daily_reset(Files, now).data) < MaxRows
  /\ SetFiles(append_to_csv(check_daily_reset(Files, now), contacts, d, now))
  /\ UNCHANGED <<now, contacts, config, upload, inflight>>

UpdateRow(sno, d, file_path) ==
  /\ SetFiles(update_row(Files, contacts, sno, d, file_path))
  /\ UNCHANGED <<now, contacts, config, upload, inflight>>

UpdateStatus(sno, status, file_path) ==
  /\ SetFiles(update_status(Files, sno, status, file_path))
  /\ UNCHANGED <<now, contacts, config, upload, inflight>>

DeleteRow(sno, file_path) ==
  /\ SetFiles(delete_row(Files, sno, file_path))
  /\ UNCHANGED <<now, contacts, config, upload, inflight>>

AddRow ==
  /\ Len(data) < MaxRows
  /\ SetFiles(add_row(Files, now))
  /\ UNCHANGED <<now, contacts, config, upload, inflight>>

SendBulkPending(ok) ==
  /\ SetFiles(send_bulk_pending(Files, ok, now))
  /\ UNCHANGED <<now, contacts, config, upload, inflight>>

(* the wall clock advances *)
Tick ==
  /\ now < MaxClock
  /\ now' = now + 1
  /\ UNCHANGED <<data, archives, last_run, contacts, config, upload, inflight>>

(* the wall clock is set back (an adjustment of the system time) *)
SetClockBack ==
  /\ now > 0
  /\ now' = now - 1
  /\ UNCHANGED <<data, archives, last_run, contacts, config, upload, inflight>>

(* the number of records in the archive files paths *)
RECURSIVE Archived(_, _)
Archived(arch, paths) ==
  IF paths = {} THEN 0
  ELSE LET p == CHOOSE x \in paths : TRUE
       IN Len(arch[p]) + Archived(arch, paths \ {p})

(* the number of records in the active store and the archive folder *)
Stored(fs) == Len(fs.data) + Archived(fs.archives, DOMAIN fs.archives)

(* the last second of the model's last day: the days are 0..MaxClock *)
LastSecond == (MaxClock + 1) * SecPerDay - 1

(* the wall clock advances by t seconds *)
Elapse(t) ==
  /\ now + t <= LastSecond
  /\ now' = now + t
  /\ UNCHANGED <<data, archives, last_run, contacts, config, upload, inflight>>

(* the providers are configured in one of the eight ways *)
InitOcr ==
  /\ data = <<>>
  /\ archives = [p \in {} |-> <<>>]
  /\ last_run = Blank
  /\ now = 0
  /\ contacts = ContactRows
  /\ config \in Configs
  /\ upload = <<>>
  /\ inflight = NoRequests

(* POST / with Len(envs) images that have a filename; envs[n] holds the    *)
(* outcomes that the invocations for image n get.  For every image:        *)
(* deepseek_ocr, classify_lines, append_to_csv                             *)
IndexPostImages(envs) ==
  /\ Len(check_daily_reset(Files, now).data) + Len(envs) <= MaxRows
  /\ \E ext \in {[n \in 1..Len(envs) |-> deepseek_ocr(config, envs[n])]} :
       \E parsed \in {[n \in 1..Len(envs) |-> classify_lines(ext[n].lines)]} :
         /\ SetFiles(record_images(check_daily_reset(Files, now), contacts, parsed, now, Len(envs)))
         /\ upload' = [n \in 1..Len(envs) |-> Image(envs[n], ext[n], parsed[n])]
  /\ UNCHANGED <<now, contacts, config, inflight>>

(* an image whose extraction returned a line list, not yet classified *)
InitClassify ==
  /\ data = <<>>
  /\ archives = [p \in {} |-> <<>>]
  /\ last_run = Blank
  /\ now = 0
  /\ contacts = ContactRows
  /\ config = Config(TRUE, FALSE, FALSE)
  /\ \E lines \in LineLists :
       LET env == Env(<<Exit(0, Plain(lines)), Timeout, Timeout>>, <<Timeout, Timeout>>, RequestError)
       IN upload = <<Image(env, Extracted(lines, lines, <<Call("cli", "--image")>>), None)>>
  /\ inflight = NoRequests

(* parsed = classify_lines(lines) *)
ClassifyUpload ==
  /\ upload # <<>>
  /\ upload[1].parsed = None
  /\ upload' = [upload EXCEPT ![1].parsed = classify_lines(upload[1].lines)]
  /\ UNCHANGED <<data, archives, last_run, now, contacts, config, inflight>>

(* POST / with one image, up to rows = read_csv() of append_to_csv *)
AppendRead(r, d) ==
  /\ inflight[r].pc = "idle"
  /\ \E got \in {append_read(Files, contacts, d, now)} :
       /\ Len(got.rows) < MaxRows
       /\ SetFiles(got.fs)
       /\ inflight' = [inflight EXCEPT ![r] = Request("read", "append", got.rows, got.entry, Blank)]
  /\ UNCHANGED <<now, contacts, config, upload>>

(* the rest of append_to_csv: rows.append(entry); write_csv(rows) *)
AppendWrite(r) ==
  /\ inflight[r].pc = "read"
  /\ inflight[r].op = "append"
  /\ SetFiles(append_write(Files, inflight[r].rows, inflight[r].entry))
  /\ inflight' = [inflight EXCEPT ![r].pc = "done"]
  /\ UNCHANGED <<now, contacts, config, upload>>

(* POST /delete_row/<sno> on the active store, up to rows = read_csv() *)
DeleteRead(r, sno) ==
  /\ inflight[r].pc = "idle"
  /\ inflight' = [inflight EXCEPT ![r] = Request("read", "delete", delete_read(Files, DATA_FILE), None, sno)]
  /\ UNCHANGED <<data, archives, last_run, now, contacts, config, upload>>

(* the rest of delete_row *)
DeleteWrite(r) ==
  /\ inflight[r].pc = "read"
  /\ inflight[r].op = "delete"
  /\ SetFiles(delete_write(Files, inflight[r].rows, inflight[r].sno, DATA_FILE))
  /\ inflight' = [inflight EXCEPT ![r].pc = "done"]
  /\ UNCHANGED <<now, contacts, config, upload>>

(* the response is returned and the slot serves the next request *)
Return(r) ==
  /\ inflight[r].pc = "done"
  /\ inflight' = [inflight EXCEPT ![r] = Idle]
  /\ UNCHANGED <<data, archives, last_run, now, contacts, config, upload>>

-----------------------------------------------------------------------------
(* Specifications *)

(* the ledger handlers on the active store, with the day rollover *)
Next ==
  \/ IndexGet
  \/ IndexPost(NoFields)
  \/ AddRow
  \/ \E sno \in Snos, d \in ColumnBodies : UpdateRow(sno, d, DATA_FILE)
  \/ \E sno \in Snos : UpdateStatus(sno, PickedUp, DATA_FILE)
  \/ \E sno \in Snos : DeleteRow(sno, DATA_FILE)
  \/ Tick

Spec == Init /\ [][Next]_vars

(* intake, blank-row insert and delete on the active store *)
NextSeq ==
  \/ \E d \in {NoFields, Parsed(<<"M">>, <<"8">>, Blank)} : IndexPost(d)
  \/ AddRow
  \/ \E sno \in Snos : DeleteRow(sno, DATA_FILE)
  \/ Tick

SpecSeq == Init /\ [][NextSeq]_vars

(* the day-boundary check with intake, blank-row insert and delete *)
NextDay ==
  \/ IndexGet
  \/ IndexPost(NoFields)
  \/ AddRow
  \/ \E sno \in Snos : DeleteRow(sno, DATA_FILE)
  \/ Tick

SpecDay == Init /\ [][NextDay]_vars

(* intake and update with the directory merge *)
NextMerge ==
  \/ \E d \in ParsedInputs : IndexPost(d)
  \/ \E sno \in Snos, d \in IdentityBodies : UpdateRow(sno, d, DATA_FILE)

SpecMerge == InitMerge /\ [][NextMerge]_vars

(* intake, notification and the handlers that can touch the notification   *)
(* status                                                                  *)
NextMail ==
  \/ IndexGet
  \/ \E d \in {Parsed(<<"M">>, <<"5">>, <<"7", "A">>), Parsed(<<"M">>, <<"8">>, Blank)} : IndexPost(d)
  \/ AddRow
  \/ \E sno \in Snos, d \in MailBodies : UpdateRow(sno, d, DATA_FILE)
  \/ \E sno \in Snos : DeleteRow(sno, DATA_FILE)
  \/ \E ok \in [PendingEmails(data) -> BOOLEAN] : SendBulkPending(ok)
  \/ Tick

SpecMail == Init /\ [][NextMail]_vars

(* intake and updates that supply the lookup keys *)
NextLookup ==
  \/ \E d \in ParsedInputs : IndexPost(d)
  \/ \E sno \in Snos, d \in LookupBodies : UpdateRow(sno, d, DATA_FILE)

SpecLookup == InitMerge /\ [][NextLookup]_vars

(* intake and notification, with update_row naming the sequence number *)
NextSend ==
  \/ \E d \in {NoFields, Parsed(<<"M">>, <<"5">>, <<"7", "A">>), Parsed(<<"M">>, <<"8">>, Blank)} : IndexPost(d)
  \/ \E sno \in Snos : UpdateRow(sno, ("S.No" :> Str(MaxRows + 1)), DATA_FILE)
  \/ \E ok \in [PendingEmails(data) -> BOOLEAN] : SendBulkPending(ok)
  \/ AddRow

SpecSend == Init /\ [][NextSend]_vars

(* JSON bodies of update_row that edit a descriptive column *)
CompanyBodies == { ("Company" :> <<"z">>) }

(* the row handlers on the store that ?filename= selects *)
NextStore ==
  \/ IndexPost(NoFields)
  \/ \E sno \in Snos, d \in CompanyBodies, f \in FilePaths : UpdateRow(sno, d, f)
  \/ \E sno \in Snos, f \in FilePaths : UpdateStatus(sno, PickedUp, f)
  \/ Tick

SpecStore == Init /\ [][NextStore]_vars

(* the same with delete_row *)
NextStoreDelete ==
  \/ IndexPost(NoFields)
  \/ \E sno \in Snos, d \in CompanyBodies, f \in FilePaths : UpdateRow(sno, d, f)
  \/ \E sno \in Snos, f \in FilePaths : UpdateStatus(sno, PickedUp, f)
  \/ \E sno \in Snos, f \in FilePaths : DeleteRow(sno, f)
  \/ Tick

SpecStoreDelete == Init /\ [][NextStoreDelete]_vars

(* intake of images through the extraction chain *)
NextOcr ==
  \E envs \in Requests(MaxRows - Len(check_daily_reset(Files, now).data)) : IndexPostImages(envs)

SpecOcr == InitOcr /\ [][NextOcr]_vars

(* the classifier on every line list *)
NextClassify == ClassifyUpload

SpecClassify == InitClassify /\ [][NextClassify]_vars

(* the day rollover under a wall clock that can be set back *)
NextClock ==
  \/ IndexGet
  \/ IndexPost(NoFields)
  \/ Tick
  \/ SetClockBack

SpecClock == Init /\ [][NextClock]_vars

(* intake and delete on the active store, served at the same time and      *)
(* interleaved at the store read and the store write                       *)
NextRace ==
  \/ \E r \in Slots, d \in RaceInputs : AppendRead(r, d)
  \/ \E r \in Slots : AppendWrite(r)
  \/ \E r \in Slots, sno \in Snos : DeleteRead(r, sno)
  \/ \E r \in Slots : DeleteWrite(r)
  \/ \E r \in Slots : Return(r)

SpecRace == Init /\ [][NextRace]_vars

(* the files that exist: the active store and the archive files *)
StoreFiles == {DATA_FILE} \cup DOMAIN archives

(* the <sno> of the rows of a file whose rows are numbered in order *)
RowNumbers(file_path) == {Str(i) : i \in 1..Len(read_csv(Files, file_path))}

(* intake, blank-row insert, field update of a row of the store or of an   *)
(* archive, and the day-boundary check over several days, without delete   *)
NextRollover ==
  \/ IndexGet
  \/ Stored(Files) <= MaxRows /\ IndexPost(NoFields)
  \/ Stored(Files) <= MaxRows /\ AddRow
  \/ \E f \in StoreFiles : \E sno \in RowNumbers(f), d \in CompanyBodies : UpdateRow(sno, d, f)
  \/ Tick
  \/ Elapse(SecPerDay)

SpecRollover == Init /\ [][NextRollover]_vars

-----------------------------------------------------------------------------
(* Properties *)

LastRow(rows) == rows[Len(rows)]

LabelDay(row) == row["Label ID"][1]

LabelSerial(row) == row["Label ID"][2]

IsSent(row) == row["Mail Status"] = Sent

Stale == last_run # today_str(now)

(* C1: after any sequence of intakes, blank-row inserts and deletes from   *)
(* the empty store, row i of the active store carries S.No i: the numbers  *)
(* are 1..N in row order.  Checked under SpecSeq.                          *)
SeqContiguous == \A i \in 1..Len(data) : data[i]["S.No"] = Str(i)

(* a delete has renumbered: the first row is the record created second *)
SeqContiguousWitness ==
  /\ Len(data) >= 1
  /\ LabelSerial(data[1]) = 2
  /\ data[1]["S.No"] = Str(1)

(* C2: records of the active store that carry the same label date (created *)
(* the same day, since the last rollover) have distinct label IDs, and a   *)
(* record created later (a later row) has a strictly greater serial.       *)
(* Checked under Spec.                                                     *)
DayLabelsIncreasing ==
  \A i, j \in 1..Len(data) :
    (i < j /\ LabelDay(data[i]) = LabelDay(data[j]))
      => LabelSerial(data[i]) < LabelSerial(data[j])

(* row i was pending and its recipient's send succeeded in this step *)
SentBySend(i) ==
  \E ok \in [PendingEmails(data) -> BOOLEAN] :
    /\ SendBulkPending(ok)
    /\ IsPending(data[i])
    /\ ok[data[i]["Email"]]

(* C3: Mail Status becomes Sent only in a batch send whose transport call  *)
(* for the record's email succeeded, and a Sent record stays Sent; intake, *)
(* update, delete with renumbering and the day-boundary check neither set  *)
(* nor unset it.  Rows keep their position in every step but a delete (the *)
(* kept rows move up) and a rollover (the store is emptied).               *)
(* Checked under SpecMail.                                                 *)
MailStatusOnlyBySend ==
  [][ /\ (Len(data') >= Len(data) /\ archives' = archives) =>
           \A i \in 1..Len(data') :
             IF i <= Len(data)
             THEN (IsSent(data'[i]) # IsSent(data[i])) =>
                     (~IsSent(data[i]) /\ SentBySend(i))
             ELSE ~IsSent(data'[i])
      /\ (Len(data') < Len(data) /\ archives' = archives) =>
           \E sno \in Snos :
             LET kept == SelectSeq(data, LAMBDA r : r["S.No"] # sno)
             IN /\ Len(data') = Len(kept)
                /\ \A i \in 1..Len(kept) : IsSent(data'[i]) = IsSent(kept[i])
      /\ (archives' # archives) => \A i \in 1..Len(data') : ~IsSent(data'[i])
    ]_vars

(* C4: in every reachable state, whatever handlers ran, the sequence       *)
(* numbers of the active store read 1, 2, .., N.  Checked under Spec.      *)
AlwaysContiguous ==
  [i \in 1..Len(data) |-> data[i]["S.No"]] = [i \in 1..Len(data) |-> Str(i)]

(* C5: whenever a handler appends a record to the active store, the        *)
(* day-boundary check has run first: afterwards the marker is the current  *)
(* date and the store holds no record of a previous day.                   *)
(* Checked under Spec.                                                     *)
CheckBeforeAppend ==
  [][ (AddRow \/ IndexPost(NoFields)) =>
        /\ last_run' = today_str(now)
        /\ \A i \in 1..Len(data') : <<data'[i]["Time"][1] \div SecPerDay>> = today_str(now)
    ]_vars

(* a request that runs check_daily_reset *)
CheckRan == IndexGet \/ IndexPost(NoFields)

(* the check archived the store as it was and emptied it *)
ArchivedAndCleared ==
  /\ \E p \in DOMAIN archives' : archives'[p] = data
  /\ IndexGet => data' = <<>>
  /\ Len(data') <= 1

SameDay ==
  {clk \in 0..(MaxClock + SecPerDay) : clk >= now /\ today_str(clk) = today_str(now)}

(* C7: a second day-boundary check at any second of the same date leaves   *)
(* the store, the archives and the marker as the first check left them.    *)
(* Checked under SpecDay.                                                  *)
ResetIdempotent ==
  \A clk \in SameDay :
    check_daily_reset(check_daily_reset(Files, now), clk) = check_daily_reset(Files, now)

(* the first check of the pair is one that archives *)
ResetIdempotentWitness ==
  /\ last_run # Blank
  /\ Stale
  /\ data # <<>>
  /\ Cardinality(SameDay) > 1
  /\ archive_name(last_run, now) \in DOMAIN check_daily_reset(Files, now).archives

(* C8: a rollover that archives a non-empty store writes a file name that  *)
(* no earlier rollover wrote, so no archive is overwritten, also when two  *)
(* rollovers read the same wall-clock second.  Checked under SpecClock.    *)
ArchiveNamesDistinct ==
  [][ (CheckRan /\ last_run # Blank /\ Stale /\ data # <<>>) =>
        archive_name(last_run, now) \notin DOMAIN archives
    ]_vars

(* C9: on append and on update, when the directory lookup hits and the     *)
(* entry's value of an identity field is empty, the stored value is the    *)
(* caller's (for update, the row's value after the caller's fields).       *)
(* Checked under SpecMerge.                                                *)
NeverClobbers ==
  [][ /\ \A d \in ParsedInputs :
           (IndexPost(d) /\ append_match(contacts, d) # None) =>
             \A k \in IdentityFields :
               append_match(contacts, d)[k] = Blank =>
                 LastRow(data')[k] = Get(d, k, Blank)
      /\ \A sno \in Snos, d \in IdentityBodies :
           (/\ UpdateRow(sno, d, DATA_FILE)
            /\ Matching(data, sno) # {}
            /\ update_match(contacts, d) # None) =>
             \A k \in IdentityFields :
               update_match(contacts, d)[k] = Blank =>
                 data'[FirstMatching(data, sno)][k] =
                   apply_fields(data[FirstMatching(data, sno)], d)[k]
    ]_vars

(* the entry found by roll number has no phone: the caller's phone stays *)
NeverClobbersWitness ==
  /\ contacts = ContactRows
  /\ data # <<>>
  /\ LastRow(data)["Roll No"] = <<"7", "a">>
  /\ LastRow(data)["Phone No"] = <<"5">>

(* C10 as claimed: on append with a directory hit, an identity field the   *)
(* caller supplied non-blank is stored as supplied.                        *)
(* Checked under SpecMerge.                                                *)
CallerValueKept ==
  [][ \A d \in ParsedInputs :
        (IndexPost(d) /\ append_match(contacts, d) # None) =>
          \A k \in IdentityFields :
            Get(d, k, Blank) # Blank => LastRow(data')[k] = d[k]
    ]_vars

(* C10 as amended: on append, an identity field is stored as the directory *)
(* entry's value when the lookup hits and that value is non-empty, and as  *)
(* the caller's value (blank when absent) otherwise.                       *)
(* Checked under SpecMerge.                                                *)
DirectoryValueFirst ==
  [][ \A d \in ParsedInputs :
        IndexPost(d) =>
          \A k \in IdentityFields :
            LastRow(data')[k] =
              IF append_match(contacts, d) # None /\ append_match(contacts, d)[k] # Blank
              THEN append_match(contacts, d)[k]
              ELSE Get(d, k, Blank)
    ]_vars

(* the directory's name replaced the caller's and its email filled the gap *)
DirectoryValueFirstWitness ==
  /\ contacts = ContactRows
  /\ data # <<>>
  /\ LastRow(data)["Name"] = <<"N">>
  /\ LastRow(data)["Email"] = <<"x">>
  /\ LastRow(data)["Phone No"] = <<"5">>

(* every call of send_email_real succeeds *)
AllSucceed == [e \in PendingEmails(data) |-> TRUE]

(* no call of send_email_real is made *)
NoCalls == [e \in {} |-> TRUE]

(* C11: after a batch send whose transport calls all succeed, no record    *)
(* with an email is left other than Sent, so a second batch send right     *)
(* after it (at the same or a later second) calls the transport zero times *)
(* and leaves every record as it is.  Checked under SpecSend.              *)
SendIdempotent ==
  LET first == send_bulk_pending(Files, AllSucceed, now)
  IN /\ \A i \in 1..Len(first.data) :
          first.data[i]["Email"] # Blank => IsSent(first.data[i])
     /\ send_calls(first) = <<>>
     /\ \A clk \in now..MaxClock + 1 : send_bulk_pending(first, NoCalls, clk) = first

(* two records of one recipient and one of another are pending *)
SendIdempotentWitness ==
  /\ Len(data) >= 2
  /\ \A i \in 1..Len(data) : IsPending(data[i])
  /\ Cardinality(PendingEmails(data)) < Len(data)
  /\ \A i \in 1..Len(send_bulk_pending(Files, AllSucceed, now).data) :
       send_bulk_pending(Files, AllSucceed, now).data[i]["Mail Time"] = timestamp(now)

(* C12: a batch send calls the transport exactly once per distinct email   *)
(* that has a not-yet-Sent record, whatever the outcomes; the records of a *)
(* group whose call fails keep Mail Status and Mail Time and the recipient *)
(* is in the failures of the response; the records of a group whose call   *)
(* succeeds are Sent.  Checked under SpecSend.                             *)
SendFrame ==
  \A ok \in [PendingEmails(data) -> BOOLEAN] :
    LET calls == send_calls(Files)
        after == send_bulk_pending(Files, ok, now).data
    IN /\ Cardinality(RangeOf(calls)) = Len(calls)
       /\ RangeOf(calls) = PendingEmails(data)
       /\ Len(after) = Len(data)
       /\ \A i \in 1..Len(data) :
            IsPending(data[i]) =>
              IF ok[data[i]["Email"]]
              THEN IsSent(after[i])
              ELSE /\ after[i]["Mail Status"] = data[i]["Mail Status"]
                   /\ after[i]["Mail Time"] = data[i]["Mail Time"]
                   /\ data[i]["Email"] \in RangeOf(send_failures(Files, ok))

(* the selected store has no record with this sequence number *)
NoRecord(sno, f) == Matching(read_csv(Files, f), sno) = {}

(* C13: an update, or a pickup-status change, whose sequence number matches *)
(* no record of the selected store answers "Row not found" with status 404, *)
(* which no successful call answers, and leaves the selected store, every   *)
(* other store and the marker exactly as they were.  Checked under          *)
(* SpecStore.                                                               *)
NotFoundLeavesStores ==
  \A sno \in Snos, f \in FilePaths :
    IF NoRecord(sno, f)
    THEN /\ update_row_response(Files, sno, f) = RowNotFound
         /\ update_status_response(Files, sno, PickedUp, f) = RowNotFound
         /\ \A d \in CompanyBodies \cup IdentityBodies :
              update_row(Files, contacts, sno, d, f) = Files
         /\ update_status(Files, sno, PickedUp, f) = Files
    ELSE /\ update_row_response(Files, sno, f) # RowNotFound
         /\ update_status_response(Files, sno, PickedUp, f) # RowNotFound

(* the active store and an archive hold different numbers of records, so    *)
(* one sequence number is found in one and not in the other, and a third    *)
(* store does not exist                                                     *)
NotFoundWitness ==
  /\ data # <<>>
  /\ OtherFile \notin DOMAIN archives
  /\ \E f \in DOMAIN archives, sno \in Snos :
       /\ NoRecord(sno, DATA_FILE)
       /\ ~NoRecord(sno, f)
       /\ update_row(Files, contacts, sno, ("Company" :> <<"z">>), f) # Files

(* C14: a delete whose sequence number matches no record of the selected    *)
(* store (the active store or a named archive) answers with an outcome      *)
(* that differs from the success outcome and leaves the records of every    *)
(* store, sequence numbers included, as they were.  Checked under            *)
(* SpecStoreDelete.                                                         *)
DeleteNotFound ==
  \A sno \in Snos, f \in FilePaths :
    NoRecord(sno, f) =>
      /\ \A other \in Snos :
           ~NoRecord(other, f) =>
             delete_row_response(Files, sno, f).status
               # delete_row_response(Files, other, f).status
      /\ delete_row(Files, sno, f) = Files

(* the providers in the order of the chain *)
Providers == <<"cli", "script", "hf">>

Rank(p) == CHOOSE i \in 1..Len(Providers) : Providers[i] = p

Configured(p) ==
  CASE p = "cli" -> config.cmd
    [] p = "script" -> config.script
    [] p = "hf" -> config.hf

(* what provider p returns for the outcomes env *)
ProviderResult(p, env) ==
  CASE p = "cli" -> deepseek_call_cli(config, env.cli)
    [] p = "script" -> deepseek_call_script(config, env.script)
    [] p = "hf" -> deepseek_call_hf_inference(config, env.hf)

(* the providers invoked for an image *)
Invoked(u) == {u.calls[i].provider : i \in 1..Len(u.calls)}

(* the configured providers whose result for the image is a non-empty text *)
Yielding(u) == {p \in RangeOf(Providers) : Configured(p) /\ Truthy(ProviderResult(p, u.env))}

FirstYielding(u) == CHOOSE p \in Yielding(u) : \A q \in Yielding(u) : Rank(p) <= Rank(q)

(* C15: for every image of a request the providers are invoked in the      *)
(* order command line, script, remote inference; a provider that is not    *)
(* configured is not invoked; the providers invoked are the configured     *)
(* ones up to and including the first that returns a non-empty text; the   *)
(* raw text and the lines are those of that provider alone, and both are   *)
(* empty when no provider returns a text.  Checked under SpecOcr.          *)
ChainInOrder ==
  \A n \in 1..Len(upload) :
    LET u == upload[n]
    IN /\ \A i \in 1..Len(u.calls), j \in 1..Len(u.calls) :
            i < j => Rank(u.calls[i].provider) <= Rank(u.calls[j].provider)
       /\ \A p \in Invoked(u) : Configured(p)
       /\ IF Yielding(u) # {}
          THEN LET first == FirstYielding(u)
               IN /\ Invoked(u) = {p \in RangeOf(Providers) :
                                     Configured(p) /\ Rank(p) <= Rank(first)}
                  /\ u.raw_text = ProviderResult(first, u.env).out
                  /\ u.lines = SplitLines(ProviderResult(first, u.env).out)
          ELSE /\ Invoked(u) = {p \in RangeOf(Providers) : Configured(p)}
               /\ u.raw_text = <<>>
               /\ u.lines = <<>>

(* the command line returns no text, the script returns one and the remote *)
(* inference, which would return another, is not invoked                   *)
ChainInOrderWitness ==
  \E n \in 1..Len(upload) :
    /\ config = Config(TRUE, TRUE, TRUE)
    /\ Yielding(upload[n]) = {"script", "hf"}
    /\ Invoked(upload[n]) = {"cli", "script"}
    /\ upload[n].lines = TextB

(* C16: within one extraction no provider is invoked more than once: a     *)
(* provider whose invocation times out or ends with a non-zero status is   *)
(* not invoked again for the image.  Checked under SpecOcr.                *)
InvokedAtMostOnce ==
  \A n \in 1..Len(upload) :
    \A i \in 1..Len(upload[n].calls), j \in 1..Len(upload[n].calls) :
      upload[n].calls[i].provider = upload[n].calls[j].provider => i = j

(* a timeout, a raised error, a non-zero exit or an empty output *)
RunFails(r) ==
  \/ r.kind # "exit"
  \/ r.returncode # 0
  \/ StripText(RawOf(r.stdout)) = <<>>

(* every invocation that a configured provider makes for the image fails *)
AllFail(env) ==
  /\ config.cmd => \A n \in 1..Len(env.cli) : RunFails(env.cli[n])
  /\ config.script =>
       /\ RunFails(env.script[1])
       /\ (env.script[1].kind = "exit" /\ env.script[1].returncode # 0) => RunFails(env.script[2])
  /\ config.hf => (env.hf.kind # "http" \/ env.hf.status # 200 \/ RawOf(env.hf.body) = <<>>)

(* C17: a request appends exactly one record per image; for an image whose *)
(* configured providers all fail (or with no provider configured) the      *)
(* extraction returns the empty text and no lines, the classification is   *)
(* all blank and the record of the image has blank name, company, phone,   *)
(* tracking number and roll number; the images after it are processed.     *)
(* Checked under SpecOcr.                                                  *)
FailedImageStillRecorded ==
  [][/\ Len(data') = Len(data) + Len(upload')
     /\ \A n \in 1..Len(upload') :
          AllFail(upload'[n].env) =>
            /\ upload'[n].raw_text = <<>>
            /\ upload'[n].lines = <<>>
            /\ upload'[n].parsed = NoFields
            /\ Len(data) + n <= Len(data')
            /\ \A k \in {"Name", "Company", "Phone No", "AWB No", "Roll No"} :
                 data'[Len(data) + n][k] = Blank]_vars

(* a request of two images: the providers are invoked for the first and    *)
(* all fail, the second yields a name; the store holds a blank record and  *)
(* then the record with the name                                           *)
FailedImageWitness ==
  /\ Len(upload) = 2
  /\ Len(data) = 2
  /\ AllFail(upload[1].env)
  /\ Len(upload[1].calls) > 1
  /\ upload[2].lines # <<>>
  /\ data[1]["Name"] = Blank
  /\ data[2]["Name"] # Blank

(* the classified image of SpecClassify *)
Classified == upload # <<>> /\ upload[1].parsed # None

(* the first n lines of the image *)
Prefix(n) == SubSeq(upload[1].lines, 1, n)

ClassifiedFields == {"AWB No", "Phone No", "Roll No", "Company", "Name"}

(* C18: the AWB of the result is the tracking number of the first line, in *)
(* the order of the list and after the clean-up, that holds a token of 10  *)
(* to 15 digits, and is blank when no line holds one; for every field, a   *)
(* value that the result of a prefix of the list has is the value that the *)
(* result of the whole list has.  Checked under SpecClassify.              *)
FirstMatchWins ==
  Classified =>
    LET cl == cleaned(upload[1].lines)
        hits == {i \in 1..Len(cl) : AwbSpans(cl[i]) # {}}
        first == CHOOSE i \in hits : \A j \in hits : i <= j
    IN /\ upload[1].parsed["AWB No"] =
            IF hits = {} THEN Blank ELSE SearchGroup(cl[first], AwbSpans(cl[first]))
       /\ \A n \in 0..Len(upload[1].lines), k \in ClassifiedFields :
            classify_lines(Prefix(n))[k] # Blank =>
              upload[1].parsed[k] = classify_lines(Prefix(n))[k]

(* the list holds a tracking number and then a line with a different one *)
FirstMatchWinsWitness ==
  /\ Classified
  /\ \E i \in 1..Len(upload[1].lines), j \in 1..Len(upload[1].lines) :
       /\ i < j
       /\ AwbSpans(Clean(upload[1].lines[i])) # {}
       /\ AwbSpans(Clean(upload[1].lines[j])) # {}
       /\ upload[1].parsed["AWB No"] = Clean(upload[1].lines[i])
       /\ upload[1].parsed["AWB No"] # Clean(upload[1].lines[j])

(* the fields in the order in which a line is tested for them *)
FieldOrder == <<"AWB No", "Phone No", "Roll No", "Company", "Name">>

(* the cleaned line s satisfies the pattern of the field *)
PatternMatches(k, s) ==
  CASE k = "AWB No" -> AwbSpans(s) # {}
    [] k = "Phone No" -> PhoneTest(s)
    [] k = "Roll No" -> RollSpans(s) # {}
    [] k = "Company" -> CompanyTest(s)
    [] k = "Name" -> NameTest(s)

(* C19: line n of the list changes at most one field of the result: the    *)
(* first field, in the order AWB, phone, roll number, company, name, that  *)
(* is blank after the lines before it and whose pattern the cleaned line   *)
(* satisfies; with no such field, or for a line of at most two characters, *)
(* the line changes nothing.  Checked under SpecClassify.                  *)
OneFieldPerLine ==
  Classified =>
    \A n \in 1..Len(upload[1].lines) :
      LET before == classify_lines(Prefix(n - 1))
          after == classify_lines(Prefix(n))
          line == upload[1].lines[n]
          changed == {k \in ClassifiedFields : before[k] # after[k]}
          open == {i \in 1..Len(FieldOrder) :
                     /\ Len(Strip(line)) > 2
                     /\ before[FieldOrder[i]] = Blank
                     /\ PatternMatches(FieldOrder[i], Clean(line))}
      IN /\ after = (IF n = Len(upload[1].lines) THEN upload[1].parsed ELSE after)
         /\ IF open = {} THEN changed = {}
            ELSE changed = {FieldOrder[CHOOSE i \in open : \A j \in open : i <= j]}

(* three lines with the same 10-digit token, which satisfies the patterns  *)
(* of AWB, phone and roll number: one field each                           *)
OneFieldPerLineWitness ==
  /\ Classified
  /\ Len(upload[1].lines) = 3
  /\ upload[1].lines[1] = upload[1].lines[2]
  /\ upload[1].lines[2] = upload[1].lines[3]
  /\ upload[1].parsed["AWB No"] = upload[1].lines[1]
  /\ upload[1].parsed["Phone No"] = upload[1].lines[1]
  /\ upload[1].parsed["Roll No"] = upload[1].lines[1]

(* C20: for a body that supplies a roll number or a phone, update_row     *)
(* finds a directory entry exactly when append_to_csv finds one for the    *)
(* same roll number and phone, and the identity fields of the updated      *)
(* record that the body supplies or that were blank are those of the       *)
(* record append_to_csv would write.  Checked under SpecLookup.            *)
UpdateLooksUpAsAppend ==
  \A i \in 1..Len(data), d \in LookupBodies :
    LET updated == updated_row(data[i], d, update_match(contacts, d))
        appended == append_entry(<<>>, d, append_match(contacts, d), now)
    IN /\ (update_match(contacts, d) = None) <=> (append_match(contacts, d) = None)
       /\ \A k \in IdentityFields :
            (k \in DOMAIN d \/ data[i][k] = Blank) => updated[k] = appended[k]

(* request q appended a record that the store holds, and request r read    *)
(* the same rows as q and has not written yet: r read before q wrote       *)
Overlapped(q, r) ==
  /\ r # q
  /\ inflight[q].pc = "done"
  /\ inflight[q].op = "append"
  /\ inflight[q].entry \in RangeOf(data)
  /\ inflight[r].pc = "read"
  /\ inflight[r].rows = inflight[q].rows

(* C21: with two requests interleaved at the store read and the store      *)
(* write and no lock, the write of a request that read the store before    *)
(* another append completed loses that append's record: after an append's  *)
(* write the store is the rows it read plus its own record, which carries  *)
(* the sequence number and the label ID of the lost one; after a delete's  *)
(* write the store holds no more than the rows it read, without the        *)
(* appended record.  Checked under SpecRace.                               *)
RaceLosesUpdate ==
  [][ \A q, r \in Slots :
        Overlapped(q, r) =>
          /\ AppendWrite(r) =>
               /\ Len(data') = Len(inflight[r].rows) + 1
               /\ LastRow(data') = inflight[r].entry
               /\ \A i \in 1..Len(inflight[r].rows) : data'[i] # inflight[q].entry
               /\ inflight[r].entry["S.No"] = inflight[q].entry["S.No"]
               /\ inflight[r].entry["Label ID"] = inflight[q].entry["Label ID"]
          /\ DeleteWrite(r) =>
               /\ Len(data') <= Len(inflight[r].rows)
               /\ inflight[q].entry \notin RangeOf(data')
    ]_vars

(* two intakes have completed, their records differ and carry the same     *)
(* sequence number and label ID, and the store holds only one of them      *)
LostUpdateWitness ==
  \E q, r \in Slots :
    /\ inflight[q].pc = "done" /\ inflight[q].op = "append"
    /\ inflight[r].pc = "done" /\ inflight[r].op = "append"
    /\ inflight[q].entry # inflight[r].entry
    /\ inflight[q].entry["S.No"] = inflight[r].entry["S.No"]
    /\ inflight[q].entry["Label ID"] = inflight[r].entry["Label ID"]
    /\ inflight[r].entry \in RangeOf(data)
    /\ inflight[q].entry \notin RangeOf(data)

(* a request that creates a record *)
Creates == IndexPost(NoFields) \/ AddRow

(* row after is row before, or row before with the fields of an update *)
SameRecord(before, after) ==
  \/ after = before
  \/ \E d \in CompanyBodies : after = apply_fields(before, d)

(* the rows of file before are those of file after, in their places *)
KeepsRows(before, after) ==
  /\ Len(after) >= Len(before)
  /\ \A i \in 1..Len(before) : SameRecord(before[i], after[i])

(* no file is rolled over: every file keeps its rows *)
StaysInPlace ==
  /\ DOMAIN archives' = DOMAIN archives
  /\ \A p \in DOMAIN archives :
       Len(archives'[p]) = Len(archives[p]) /\ KeepsRows(archives[p], archives'[p])
  /\ KeepsRows(data, data')

(* the rows of the store become the rows of one new archive file, the      *)
(* other archive files are as before, and the store holds at most the      *)
(* record that the request creates                                         *)
RolledOver ==
  /\ data # <<>>
  /\ \E p \in DOMAIN archives' \ DOMAIN archives :
       /\ DOMAIN archives' = DOMAIN archives \cup {p}
       /\ archives'[p] = data
  /\ \A p \in DOMAIN archives : archives'[p] = archives[p]
  /\ Len(data') = (IF IndexPost(NoFields) THEN 1 ELSE 0)

(* C22: over intakes, blank-row inserts, field updates and day-boundary    *)
(* checks with an advancing clock and no delete, no record is lost or      *)
(* doubled: every step leaves each record in its file and place, or moves  *)
(* all records of the active store to one new archive file; the number of  *)
(* records in the store and the archives grows by one with every created   *)
(* record and changes in no other step; and a day-boundary check leaves    *)
(* every archive file that exists as it is.  Checked under SpecRollover.   *)
RolloverKeepsRecords ==
  [][ /\ StaysInPlace \/ (CheckRan /\ RolledOver)
      /\ Stored(Files)' = Stored(Files) + (IF Creates THEN 1 ELSE 0)
      /\ CheckRan => \A p \in DOMAIN archives :
                       p \in DOMAIN archives' /\ archives'[p] = archives[p]
    ]_vars

(* two rollovers have written two archive files, a record of an archive    *)
(* was updated, and the store holds a record of the current day            *)
RolloverWitness ==
  /\ Cardinality(DOMAIN archives) >= 2
  /\ \A p \in DOMAIN archives : archives[p] # <<>>
  /\ \E p \in DOMAIN archives : \E i \in 1..Len(archives[p]) : archives[p][i]["Company"] # Blank
  /\ data # <<>>
  /\ last_run = today_str(now)

====
